---- MODULE Spec2Model ----
(***************************************************************************)
(* Model of src/main.py: the Binance scanner that fetches candles,         *)
(* computes RSI/MACD, evaluates alert rules and sends batched Telegram     *)
(* messages.                                                                *)
(*                                                                          *)
(* Four specifications share this module:                                   *)
(*   SpecFetch  - one call of http_get, one action per loop iteration      *)
(*   SpecSig    - generate_signals applied to bounded closes/volumes       *)
(*   SpecScan   - one scan() cycle run from main(), symbol by symbol       *)
(*   SpecBatch  - the chunking loop of scan() applied to a findings list   *)
(* Floats are modelled as fixed-point integers (the float x is the integer *)
(* x * FP), divisions rounding towards minus infinity.                     *)
(***************************************************************************)
EXTENDS Integers, Sequences, FiniteSets, TLC

VARIABLES
    \* ---- http_get ----
    h_pc,        \* "idle" | "loop" | "done"
    h_url,       \* the url argument (the only host the call ever targets)
    h_signed_arg, \* the argument `signed` as passed by the caller
    h_signed,    \* the local variable `signed`
    h_creds,     \* BINANCE_API_KEY and BINANCE_API_SECRET both configured
    h_attempt,   \* loop variable `attempt`
    h_trace,     \* requests issued and sleeps performed, in order
    h_ret,       \* returned value
    h_raised,    \* an exception left http_get
    \* ---- generate_signals ----
    g_pc,        \* "input" | "done"
    g_symbol, g_closes, g_volumes, g_mode,   \* the arguments
    g_out,       \* what the call returned or raised
    \* ---- scan / main ----
    s_pc,        \* "start" | "loop" | "notify" | "done"
    s_mode,      \* ALERT_MODE, lower-cased
    s_symbols,   \* the resolved symbol universe
    s_idx,       \* position of the for loop in s_symbols (next symbol)
    s_alerts,    \* `alerts`
    s_checked,   \* `checked`
    s_events,    \* candle fetches, pacing sleeps and sends, in order
    s_exc,       \* the exception that left scan(), "no" when none
    m_caught,    \* main's except block ran
    \* ---- the chunking loop alone ----
    b_pc,        \* "input" | "done"
    b_header, b_alerts,   \* its inputs
    b_sent,      \* the blocks passed to tg_send_message, in order
    \* ---- rsi / macd alone ----
    i_pc,        \* "input" | "done"
    i_values, i_period,   \* the series and the rsi period
    i_rsi,       \* what rsi returned
    i_avgs,      \* <<avg_gain, avg_loss>> behind each defined rsi value
    i_macd,      \* what macd returned (default spans)
    \* ---- tg_send_message ----
    t_pc,        \* "idle" | "loop" | "done"
    t_conf,      \* TELEGRAM_BOT_TOKEN and TELEGRAM_CHAT_ID both set
    t_attempt,   \* loop variable `attempt`
    t_trace,     \* posts issued and sleeps performed, in order
    t_ret,       \* returned value
    t_raised     \* an exception left tg_send_message

hvars == <<h_pc, h_url, h_signed_arg, h_signed, h_creds, h_attempt, h_trace,
           h_ret, h_raised>>
gvars == <<g_pc, g_symbol, g_closes, g_volumes, g_mode, g_out>>
svars == <<s_pc, s_mode, s_symbols, s_idx, s_alerts, s_checked, s_events,
           s_exc, m_caught>>
bvars == <<b_pc, b_header, b_alerts, b_sent>>
ivars == <<i_pc, i_values, i_period, i_rsi, i_avgs, i_macd>>
tvars == <<t_pc, t_conf, t_attempt, t_trace, t_ret, t_raised>>
vars  == <<hvars, gvars, svars, bvars, ivars, tvars>>

----------------------------------------------------------------------------
(* Program constants                                                        *)

MAX_RETRIES == 3

RETRY_BACKOFF == <<1, 2, 4>>

\* the literal of time.sleep(2) after a 429 in http_get
RATE_LIMIT_SLEEP == 2

\* Python's None
None == "None"

Min(a, b) == IF a < b THEN a ELSE b

----------------------------------------------------------------------------
(* http_get                                                                 *)

\* Hosts a caller may pass in `url`; the code always passes BINANCE_API.
Urls == {"A", "B", "C"}

\* What one sess.get can produce: a 2xx status with a JSON body (an object,
\* an array, the literal null), a 2xx status whose body is not JSON, a 429,
\* a 403, another 4xx/5xx status, or a timeout / connection error.
Outcomes == {"ok_dict", "ok_list", "ok_null", "bad_json",
             "s429", "s403", "s500", "timeout"}

\* Retry-After header of a response: absent (<<>>), or a number of
\* seconds (<<n>>).
RetryAfters == {<<>>, <<1>>, <<5>>}

\* resp.json() of a 2xx response
Json(outcome) ==
    CASE outcome = "ok_dict" -> "dict"
      [] outcome = "ok_list" -> "list"
      [] outcome = "ok_null" -> None
      [] OTHER -> "JSONDecodeError"

\* The attempt ends in `return resp.json()`: status is not 429,
\* raise_for_status() passes and the body parses.
Succeeds(outcome) == outcome \in {"ok_dict", "ok_list", "ok_null"}

\* The attempt raises inside the try block: the transport raised,
\* raise_for_status() raised on a 4xx/5xx, or resp.json() raised.
Raises(outcome) == outcome \in {"bad_json", "s403", "s500", "timeout"}

\* a handler that catches requests.RequestException only
Caught_requests_only(outcome) == outcome \in {"s403", "s500", "timeout"}

\* `except Exception` catches every exception the try block can raise
Caught(outcome) == Raises(outcome)

\* the query string of a signed request: the caller's parameters with
\* params["timestamp"] = ts
Query(url, ts) == [endpoint |-> url, timestamp |-> ts]

\* hmac.new(secret, q, sha256).hexdigest(), kept as what was signed
Hmac(q) == [hmac_of |-> q]

\* int(time.time() * 1000) read in the attempt after `attempt` earlier
\* ones: every earlier attempt slept, so the readings grow
Now(attempt) == attempt + 1

\* one sess.get: a signed request carries the timestamp, the signature
\* over its query and the X-MBX-APIKEY header; a plain request has none
Req(url, sgn, ts, outcome, ra) ==
    [kind |-> "req", endpoint |-> url, signed |-> sgn,
     timestamp |-> IF sgn THEN <<ts>> ELSE <<>>,
     signature |-> IF sgn THEN <<Hmac(Query(url, ts))>> ELSE <<>>,
     api_key_header |-> sgn,
     outcome |-> outcome, retry_after |-> ra]

\* a signed branch taken whenever the caller asked for it
Signs_always(signed, creds) == signed

\* the signed branch is taken when signed is set and both BINANCE_API_KEY
\* and BINANCE_API_SECRET are; otherwise signed is cleared
Signs(signed, creds) == signed /\ creds

Sleep(secs) == [kind |-> "sleep", secs |-> secs]

\* a success path that pauses before it returns
Returned_after_pause(trace, req) == trace \o <<req, Sleep(RETRY_BACKOFF[1])>>

\* `return resp.json()`: the request is the last thing the call does
ReturnedAt(trace, req) == Append(trace, req)

\* http_get(url, params, signed) is entered
HttpCall ==
    /\ h_pc = "idle"
    /\ \E u \in Urls, s \in BOOLEAN, c \in BOOLEAN :
          /\ h_url' = u
          /\ h_signed_arg' = s
          /\ h_signed' = s
          /\ h_creds' = c
    /\ h_pc' = "loop"
    /\ h_attempt' = 0
    /\ UNCHANGED <<h_trace, h_ret, h_raised>>

\* One iteration of `for attempt in range(MAX_RETRIES)`; when it was the
\* last one and did not return, the code after the loop returns None.
HttpAttempt ==
    /\ h_pc = "loop"
    /\ h_attempt < MAX_RETRIES
    /\ \E outcome \in Outcomes, ra \in RetryAfters :
          LET sgn  == Signs(h_signed, h_creds)
              req  == Req(h_url, sgn, Now(h_attempt), outcome, ra)
              last == h_attempt + 1 = MAX_RETRIES
          IN
          /\ (outcome # "s429") => (ra = <<>>)
          /\ h_signed' = sgn
          /\ IF outcome = "s429"
             THEN /\ h_trace' = h_trace \o <<req, Sleep(RATE_LIMIT_SLEEP)>>
                  /\ h_attempt' = h_attempt + 1
                  /\ h_pc' = IF last THEN "done" ELSE "loop"
                  /\ h_ret' = IF last THEN None ELSE h_ret
                  /\ UNCHANGED h_raised
             ELSE IF Succeeds(outcome)
             THEN /\ h_trace' = ReturnedAt(h_trace, req)
                  /\ h_ret' = Json(outcome)
                  /\ h_pc' = "done"
                  /\ UNCHANGED <<h_attempt, h_raised>>
             ELSE IF Caught(outcome)
             THEN /\ h_trace' = h_trace \o
                        <<req, Sleep(RETRY_BACKOFF[Min(h_attempt, Len(RETRY_BACKOFF) - 1) + 1])>>
                  /\ h_attempt' = h_attempt + 1
                  /\ h_pc' = IF last THEN "done" ELSE "loop"
                  /\ h_ret' = IF last THEN None ELSE h_ret
                  /\ UNCHANGED h_raised
             ELSE /\ h_trace' = Append(h_trace, req)
                  /\ h_raised' = TRUE
                  /\ h_pc' = "done"
                  /\ UNCHANGED <<h_attempt, h_ret>>
    /\ UNCHANGED <<h_url, h_signed_arg, h_creds>>

HttpNext ==
    \/ HttpCall /\ UNCHANGED <<gvars, svars, bvars, ivars, tvars>>
    \/ HttpAttempt /\ UNCHANGED <<gvars, svars, bvars, ivars, tvars>>

\* the requests of the call, in issue order
Requests == SelectSeq(h_trace, LAMBDA e : e.kind = "req")

----------------------------------------------------------------------------
(* Indicators (fixed-point: a float x is the integer x * FP)                *)

\* fixed-point scale of the float model
FP == 1000

\* an optional value: <<>> is Python's None, <<x>> is the value x
NoneV == <<>>
Some(x) == <<x>>

Max(a, b) == IF a > b THEN a ELSE b

RECURSIVE SumSeq(_)
SumSeq(s) == IF s = <<>> THEN 0 ELSE Head(s) + SumSeq(Tail(s))

\* Python's s[-k:]
LastK(s, k) == IF Len(s) <= k THEN s ELSE SubSeq(s, Len(s) - k + 1, Len(s))

\* Python's s[:k]
FirstK(s, k) == IF Len(s) <= k THEN s ELSE SubSeq(s, 1, k)

\* gains / losses of rsi: one entry per consecutive pair of values
Gains(values) ==
    [i \in 1..(Len(values) - 1) |-> Max(values[i + 1] - values[i], 0)]

Losses(values) ==
    [i \in 1..(Len(values) - 1) |-> Max(-(values[i + 1] - values[i]), 0)]

\* rs = 0 in place of rs = inf when avg_loss == 0
RsiValue_rs_zero(avg_gain, avg_loss) ==
    LET rs == IF avg_loss = 0 THEN 0 ELSE (avg_gain * FP) \div avg_loss
    IN  100 * FP - ((100 * FP * FP) \div (FP + rs))

\* r = 100 - 100 / (1 + rs), rs = inf when avg_loss == 0
RsiValue(avg_gain, avg_loss) ==
    IF avg_loss = 0
    THEN 100 * FP
    ELSE LET rs == (avg_gain * FP) \div avg_loss
         IN  100 * FP - ((100 * FP * FP) \div (FP + rs))

\* The Wilder loop of rsi: avgs holds <<avg_gain, avg_loss>> after each
\* update done so far, starting from the seed averages; the update for
\* gains[i] is the one that follows Len(avgs) = i - period of them.
RECURSIVE RsiLoop(_, _, _, _, _)
RsiLoop(gains, losses, period, seed, avgs) ==
    IF period + Len(avgs) >= Len(gains)
    THEN avgs
    ELSE LET i    == period + Len(avgs) + 1
             prev == IF avgs = <<>> THEN seed ELSE avgs[Len(avgs)]
         IN  RsiLoop(gains, losses, period, seed,
                     Append(avgs,
                            <<(prev[1] * (period - 1) + gains[i]) \div period,
                              (prev[2] * (period - 1) + losses[i]) \div period>>))

\* <<avg_gain, avg_loss>> at every index where rsi is defined
RsiAverages(values, period) ==
    LET gains  == Gains(values)
        losses == Losses(values)
    IN  RsiLoop(gains, losses, period,
                <<SumSeq(FirstK(gains, period)) \div period,
                  SumSeq(FirstK(losses, period)) \div period>>,
                <<>>)

rsi(values, period) ==
    IF Len(values) <= period
    THEN <<>>
    ELSE LET avgs == RsiAverages(values, period)
         IN  [i \in 1..period |-> NoneV]
                 \o [k \in 1..Len(avgs) |-> Some(RsiValue(avgs[k][1], avgs[k][2]))]

\* the loop of ema: out.append(v * k + out[-1] * (1 - k)), k = 2 / (span + 1),
\* the next v being values[Len(out) + 1]
RECURSIVE EmaLoop(_, _, _)
EmaLoop(values, span, out) ==
    IF Len(out) >= Len(values)
    THEN out
    ELSE EmaLoop(values, span,
                 Append(out, (2 * values[Len(out) + 1] + (span - 1) * out[Len(out)])
                                 \div (span + 1)))

\* an ema that leaves out its seed value
ema_no_seed(values, span) ==
    IF values = <<>> THEN <<>> ELSE Tail(EmaLoop(values, span, <<values[1]>>))

ema(values, span) ==
    IF values = <<>> THEN <<>> ELSE EmaLoop(values, span, <<values[1]>>)

\* [a - b for a, b in zip(xs, ys)]
ZipSub(xs, ys) == [i \in 1..Min(Len(xs), Len(ys)) |-> xs[i] - ys[i]]

macd(values, fast, slow, signal) ==
    IF Len(values) < slow + signal + 5
    THEN [macd_line |-> <<>>, signal_line |-> <<>>, hist |-> <<>>]
    ELSE LET ema_fast0   == ema(values, fast)
             ema_slow0   == ema(values, slow)
             length      == Min(Len(ema_fast0), Len(ema_slow0))
             ema_fast    == LastK(ema_fast0, length)
             ema_slow    == LastK(ema_slow0, length)
             macd_line0  == ZipSub(ema_fast, ema_slow)
             signal_line0 == ema(macd_line0, signal)
             length2     == Min(Len(macd_line0), Len(signal_line0))
             macd_line   == LastK(macd_line0, length2)
             signal_line == LastK(signal_line0, length2)
         IN  [macd_line |-> macd_line, signal_line |-> signal_line,
              hist |-> ZipSub(macd_line, signal_line)]

----------------------------------------------------------------------------
(* generate_signals                                                         *)

Abs(x) == IF x < 0 THEN -x ELSE x

\* 10 ** d for the two precisions the f-strings use
Pow10(d) == IF d = 0 THEN 1 ELSE IF d = 1 THEN 10 ELSE 100

\* f"{x:.<d>f}": the sign and the magnitude in units of 10 ** -d, rounded
\* half to even
Fmt(x, d) ==
    LET unit == FP \div Pow10(d)
        q    == Abs(x) \div unit
        rem  == Abs(x) % unit
        up   == (2 * rem > unit) \/ (2 * rem = unit /\ q % 2 = 1)
    IN  [neg |-> x < 0, mag |-> q + (IF up THEN 1 ELSE 0), dec |-> d]

\* the texts without a number
NoNum == [neg |-> FALSE, mag |-> 0, dec |-> 0]

\* A finding text: which f-string produced it, the symbol and the number
\* formatted into it.
Finding(tmpl, symbol, num) == [tmpl |-> tmpl, symbol |-> symbol, num |-> num]

\* the spec's category of a finding text
Category(f) ==
    CASE f.tmpl \in {"bull_cons", "bull_aggr"} -> "bullish-setup"
      [] f.tmpl = "bear" -> "bearish-warning"
      [] f.tmpl = "overbought" -> "overbought"
      [] f.tmpl = "oversold" -> "oversold"

Returned(v) == [raised |-> "no", value |-> v]
Raised(e)   == [raised |-> e, value |-> <<>>]

\* Python's s[-k] for k <= len(s)
Nth(s, k) == s[Len(s) - k + 1]

\* s[-2] if len(s) > 1 else s[-1]
Prev(s) == IF Len(s) > 1 THEN Nth(s, 2) ELSE Nth(s, 1)

\* the loop with uniq.insert(0, s) in place of uniq.append(s)
RECURSIVE Uniq_prepend(_, _)
Uniq_prepend(out, uniq) ==
    IF out = <<>>
    THEN uniq
    ELSE Uniq_prepend(Tail(out),
              IF \E i \in 1..Len(uniq) : uniq[i] = Head(out)
              THEN uniq
              ELSE <<Head(out)>> \o uniq)

\* the loop that keeps the first occurrence of each text
RECURSIVE Uniq(_, _)
Uniq(out, uniq) ==
    IF out = <<>>
    THEN uniq
    ELSE Uniq(Tail(out),
              IF \E i \in 1..Len(uniq) : uniq[i] = Head(out)
              THEN uniq
              ELSE Append(uniq, Head(out)))

\* sma20 and the spike test on the volumes
VolSpike(volumes) ==
    LET vol   == Nth(volumes, 1)
        sma20 == IF Len(volumes) >= 20
                 THEN SumSeq(LastK(volumes, 20)) \div 20
                 ELSE SumSeq(volumes) \div Len(volumes)
    IN  2 * vol > 3 * sma20

\* momentum % against the close 3 candles back
Momentum(closes) ==
    IF Nth(closes, 4) # 0
    THEN (((Nth(closes, 1) - Nth(closes, 4)) * FP) \div Nth(closes, 4)) * 100
    ELSE 0

\* the two branches under the inverted test mode != "conservative"
BullishRule_swapped(mode, macd_bull_cross, rsi_rebound, vol_spike, momentum) ==
    IF mode # "conservative"
    THEN macd_bull_cross /\ rsi_rebound /\ vol_spike /\ momentum > 1 * FP
    ELSE macd_bull_cross \/ rsi_rebound \/ (vol_spike /\ momentum > (7 * FP) \div 10)

\* the aggressive branch with the conservative momentum threshold
BullishRule_threshold(mode, macd_bull_cross, rsi_rebound, vol_spike, momentum) ==
    IF mode = "conservative"
    THEN macd_bull_cross /\ rsi_rebound /\ vol_spike /\ momentum > 1 * FP
    ELSE macd_bull_cross \/ rsi_rebound \/ (vol_spike /\ momentum > 1 * FP)

\* the bullish rule of the two modes
BullishRule(mode, macd_bull_cross, rsi_rebound, vol_spike, momentum) ==
    IF mode = "conservative"
    THEN macd_bull_cross /\ rsi_rebound /\ vol_spike /\ momentum > 1 * FP
    ELSE macd_bull_cross \/ rsi_rebound \/ (vol_spike /\ momentum > (7 * FP) \div 10)

\* the findings appended to `out`, in append order; q holds the derived
\* quantities of lines 173-189
\* an oversold test with its comparison turned round
Rules_oversold_inverted(symbol, mode, q) ==
    LET r_now           == q.r_now
        r_prev          == q.r_prev
        vol_spike       == q.vol_spike
        momentum        == q.momentum
        macd_bull_cross == q.macd_prev <= q.signal_prev /\ q.macd_now > q.signal_now
        macd_bear_cross == q.macd_prev >= q.signal_prev /\ q.macd_now < q.signal_now
        rsi_rebound     == r_prev < 50 * FP /\ 50 * FP <= r_now
        rsi_overbought  == r_now >= 70 * FP
        rsi_oversold    == r_now >= 30 * FP
        bull == IF BullishRule(mode, macd_bull_cross, rsi_rebound, vol_spike, momentum)
                THEN <<Finding(IF mode = "conservative" THEN "bull_cons" ELSE "bull_aggr",
                               symbol, Fmt(momentum, 2))>>
                ELSE <<>>
        bear == IF macd_bear_cross
                   \/ (~vol_spike /\ momentum < -(1 * FP) /\ r_now < r_prev)
                THEN <<Finding("bear", symbol, NoNum)>>
                ELSE <<>>
        ob   == IF rsi_overbought
                THEN <<Finding("overbought", symbol, Fmt(r_now, 1))>>
                ELSE <<>>
        os   == IF rsi_oversold
                THEN <<Finding("oversold", symbol, Fmt(r_now, 1))>>
                ELSE <<>>
    IN  bull \o bear \o ob \o os

Rules(symbol, mode, q) ==
    LET r_now           == q.r_now
        r_prev          == q.r_prev
        vol_spike       == q.vol_spike
        momentum        == q.momentum
        macd_bull_cross == q.macd_prev <= q.signal_prev /\ q.macd_now > q.signal_now
        macd_bear_cross == q.macd_prev >= q.signal_prev /\ q.macd_now < q.signal_now
        rsi_rebound     == r_prev < 50 * FP /\ 50 * FP <= r_now
        rsi_overbought  == r_now >= 70 * FP
        rsi_oversold    == r_now <= 30 * FP
        bull == IF BullishRule(mode, macd_bull_cross, rsi_rebound, vol_spike, momentum)
                THEN <<Finding(IF mode = "conservative" THEN "bull_cons" ELSE "bull_aggr",
                               symbol, Fmt(momentum, 2))>>
                ELSE <<>>
        bear == IF macd_bear_cross
                   \/ (~vol_spike /\ momentum < -(1 * FP) /\ r_now < r_prev)
                THEN <<Finding("bear", symbol, NoNum)>>
                ELSE <<>>
        ob   == IF rsi_overbought
                THEN <<Finding("overbought", symbol, Fmt(r_now, 1))>>
                ELSE <<>>
        os   == IF rsi_oversold
                THEN <<Finding("oversold", symbol, Fmt(r_now, 1))>>
                ELSE <<>>
    IN  bull \o bear \o ob \o os

generate_signals(symbol, closes, volumes, mode) ==
    IF Len(closes) < 60
    THEN Returned(<<>>)
    ELSE
    LET r == rsi(closes, 14)
        m == macd(closes, 12, 26, 9)
    IN
    IF r = <<>> \/ m.hist = <<>>
    THEN Returned(<<>>)
    ELSE IF volumes = <<>>
    THEN Raised("IndexError")            \* volumes[-1]
    ELSE IF Nth(r, 1) = NoneV \/ Prev(r) = NoneV
    THEN Raised("TypeError")             \* None compared with 50
    ELSE Returned(Uniq(Rules(symbol, mode,
                             [r_now       |-> Nth(r, 1)[1],
                              r_prev      |-> Prev(r)[1],
                              macd_now    |-> Nth(m.macd_line, 1),
                              macd_prev   |-> Prev(m.macd_line),
                              signal_now  |-> Nth(m.signal_line, 1),
                              signal_prev |-> Prev(m.signal_line),
                              vol_spike   |-> VolSpike(volumes),
                              momentum    |-> Momentum(closes)]),
                       <<>>))

----------------------------------------------------------------------------
(* Inputs of generate_signals                                               *)

\* longest closes series evaluated
MaxCloses == 61

\* lengths around the thresholds 14 (rsi), 40 (macd) and 60 (evaluator)
CloseLens == {0, 1, 3, 14, 15, 39, 40, 59, 60, MaxCloses}

Shapes == {"flat", "rise", "fall", "zig", "rally"}

\* moves applied to the last two closes
TailMoves == {-3000, 0, 800, 3000}

\* n closes from 100.0 following a shape (rally: a steep rise that slows
\* down on the last two candles), the last two moved by t1, t2
Series(n, shape, t1, t2) ==
    [i \in 1..n |->
        (100 * FP
         + (CASE shape = "flat" -> 0
              [] shape = "rise" -> i * 100
              [] shape = "fall" -> -(i * 100)
              [] shape = "zig"  -> IF i % 2 = 1 THEN 300 ELSE -300
              [] shape = "rally" -> IF i <= n - 2
                                    THEN i * 1000
                                    ELSE (n - 2) * 1000 + (i - (n - 2)) * 300))
        + (IF i = n - 1 THEN t1 ELSE IF i = n THEN t2 ELSE 0)]

\* k volumes of 100, the last one replaced by vlast
Vols(k, vlast) == [i \in 1..k |-> IF i = k THEN vlast ELSE 100]

\* ALERT_MODE after .lower(): the two documented values and anything else
Modes == {"conservative", "aggressive", "other"}

Sym(name, len) == [name |-> name, len |-> len]
BTC == Sym("BTCUSDT", 7)
ETH == Sym("ETHUSDT", 7)

\* the call generate_signals(symbol, closes, volumes, mode)
SigEvaluate ==
    /\ g_pc = "input"
    /\ g_out' = generate_signals(g_symbol, g_closes, g_volumes, g_mode)
    /\ g_pc' = "done"
    /\ UNCHANGED <<g_symbol, g_closes, g_volumes, g_mode>>

SigNext == SigEvaluate /\ UNCHANGED <<hvars, svars, bvars, ivars, tvars>>

----------------------------------------------------------------------------
(* Message texts and the chunking loop of scan()                            *)

RECURSIVE Digits(_)
\* number of decimal digits of n >= 0
Digits(n) == IF n < 10 THEN 1 ELSE 1 + Digits(n \div 10)

\* len() of a formatted number: sign, integer digits, point, decimals
NumLen(num) ==
    (IF num.neg THEN 1 ELSE 0) + Digits(num.mag \div Pow10(num.dec)) + 1 + num.dec

\* len() of a finding text (code points of the f-string around the fields)
LineLen(f) ==
    CASE f.tmpl = "bull_cons"  -> 48 + f.symbol.len + NumLen(f.num)
      [] f.tmpl = "bull_aggr"  -> 43 + f.symbol.len + NumLen(f.num)
      [] f.tmpl = "bear"       -> 38 + f.symbol.len
      [] f.tmpl = "overbought" -> 21 + f.symbol.len + NumLen(f.num)
      [] f.tmpl = "oversold"   -> 19 + f.symbol.len + NumLen(f.num)

\* len() of the mode string
ModeLen(mode) ==
    CASE mode = "conservative" -> 12
      [] mode = "aggressive"   -> 10
      [] mode = "other"        -> 5

\* INTERVAL, left at its default "1h"
IntervalLen == 2

\* the header f-string: interval, mode, checked, timestamp
Header(mode, checked) ==
    [mode |-> mode, checked |-> checked,
     len |-> 49 + IntervalLen + ModeLen(mode) + Digits(checked)]

\* Telegram block limit used by the chunking loop
BLOCK_LIMIT == 3800

\* A chunk is the header followed by finding lines, each ending in "\n".
Chunk(header, lines) == [header |-> header, lines |-> lines]

RECURSIVE SumLineLen(_)
SumLineLen(lines) ==
    IF lines = <<>> THEN 0 ELSE LineLen(Head(lines)) + 1 + SumLineLen(Tail(lines))

ChunkLen(chunk) == chunk.header.len + SumLineLen(chunk.lines)

\* the loop that resets the chunk without sending it
RECURSIVE ChunkLoop_nosend(_, _, _, _, _)
ChunkLoop_nosend(header, alerts, i, chunk, sent) ==
    IF i > Len(alerts)
    THEN IF ChunkLen(chunk) > 0 THEN Append(sent, chunk) ELSE sent
    ELSE LET line  == alerts[i]
             flush == ChunkLen(chunk) + LineLen(line) + 1 > BLOCK_LIMIT
         IN  ChunkLoop_nosend(header, alerts, i + 1,
                       Chunk(header, Append(IF flush THEN <<>> ELSE chunk.lines, line)),
                       sent)

\* for line in alerts: flush the chunk when the line would pass the limit,
\* then append the line; the last chunk is sent when chunk.strip() is not
\* empty (a chunk always starts with the non-blank header)
RECURSIVE ChunkLoop(_, _, _, _, _)
ChunkLoop(header, alerts, i, chunk, sent) ==
    IF i > Len(alerts)
    THEN IF ChunkLen(chunk) > 0 THEN Append(sent, chunk) ELSE sent
    ELSE LET line  == alerts[i]
             flush == ChunkLen(chunk) + LineLen(line) + 1 > BLOCK_LIMIT
         IN  ChunkLoop(header, alerts, i + 1,
                       Chunk(header, Append(IF flush THEN <<>> ELSE chunk.lines, line)),
                       IF flush THEN Append(sent, chunk) ELSE sent)

\* the blocks scan() passes to tg_send_message for a non-empty alerts list
Blocks(header, alerts) == ChunkLoop(header, alerts, 1, Chunk(header, <<>>), <<>>)

----------------------------------------------------------------------------
(* The chunking loop on bounded findings lists (SpecBatch)                  *)

\* longest findings list given to the chunking loop
MaxAlerts == 4

\* symbols whose names make finding lines of very different lengths; with
\* the bearish text (38 characters) and the header of aggressive mode with a
\* one-digit count (62 characters) LONG_FIT fills one block exactly
\* (62 + 38 + 3699 + 1 = 3800) and LONG_OVER passes it by one
BatchSymbols ==
    {BTC, Sym("LONG_A", 1200), Sym("LONG_B", 1850), Sym("LONG_FIT", 3699),
     Sym("LONG_OVER", 3700)}

BatchLines == {Finding("bear", sym, NoNum) : sym \in BatchSymbols}

RECURSIVE SeqsUpTo(_, _)
\* all sequences over S of length <= n
SeqsUpTo(S, n) ==
    IF n = 0
    THEN {<<>>}
    ELSE LET shorter == SeqsUpTo(S, n - 1)
         IN  shorter \cup {Append(q, x) : q \in shorter, x \in S}

\* lines 295-305 of scan(): nothing is sent for an empty list
BatchSend ==
    /\ b_pc = "input"
    /\ b_sent' = IF b_alerts # <<>> THEN Blocks(b_header, b_alerts) ELSE <<>>
    /\ b_pc' = "done"
    /\ UNCHANGED <<b_header, b_alerts>>

BatchNext == BatchSend /\ UNCHANGED <<hvars, gvars, svars, ivars, tvars>>

----------------------------------------------------------------------------
(* scan() and main()                                                        *)

\* most symbols in the universe of one cycle
MaxSymbols == 2

\* fewest candles for a symbol to be evaluated
MIN_CANDLES == 30

\* time.sleep(0.12) between symbols, in milliseconds
PACING_MS == 120

ScanSymbols == {BTC, ETH, Sym("LONG_B", 1850)}

\* a JSON field that float() rejects
\* a candle field as the JSON body holds it: <<x>> a numeric string,
\* <<>> a string that is no number, <<0, 0>> a null
BadField == <<>>
NullField == <<0, 0>>

\* float(x) of a candle field: ValueError for a string that is no number,
\* TypeError for a null
FloatOk(field) == Len(field) = 1
FloatOf(field) == field[1]
FloatExc(field) == IF field = BadField THEN "ValueError" ELSE "TypeError"

\* the exception of the two list comprehensions over kl: the first field
\* that float() rejects, all closes before any volume
FirstOf(S) == CHOOSE i \in S : \A j \in S : i <= j
ParseExc(kl) ==
    LET badc == {i \in 1..Len(kl) : ~FloatOk(kl[i].close)}
        badv == {i \in 1..Len(kl) : ~FloatOk(kl[i].volume)}
    IN  IF badc # {} THEN FloatExc(kl[FirstOf(badc)].close)
        ELSE IF badv # {} THEN FloatExc(kl[FirstOf(badv)].volume)
        ELSE "no"

\* the builtin exception classes and their base classes
BaseOf ==
    [ValueError |-> "Exception", TypeError |-> "Exception",
     AttributeError |-> "Exception", IndexError |-> "LookupError",
     LookupError |-> "Exception", Exception |-> "BaseException",
     KeyboardInterrupt |-> "BaseException", BaseException |-> "object"]

RECURSIVE IsSubclass(_, _)
IsSubclass(cls, base) ==
    IF cls = base THEN TRUE
    ELSE IF cls = "object" THEN FALSE
    ELSE IsSubclass(BaseOf[cls], base)

\* an except clause that names ValueError only
MainCatches_value_error_only(exc) == IsSubclass(exc, "ValueError")

\* main: `except Exception as e`
MainCatches(exc) == IsSubclass(exc, "Exception")

\* a klines body of n candles (only k[4] and k[5] are read), the close of
\* candle bad_at unparsable
Klines(n, shape, t1, t2, vlast, bad_at) ==
    LET closes  == Series(n, shape, t1, t2)
        volumes == Vols(n, vlast)
    IN  [i \in 1..n |->
            [close  |-> IF i = bad_at THEN BadField ELSE Some(closes[i]),
             volume |-> Some(volumes[i])]]

\* what http_get returns for a klines request: None after exhaustion, or
\* the parsed body
WithNullVolume(kl, at) ==
    [i \in 1..Len(kl) |-> IF i = at THEN [kl[i] EXCEPT !.volume = NullField] ELSE kl[i]]

KlineResults ==
    {NoneV,
     Some(<<>>),
     Some(Klines(10, "flat", 0, 0, 100, 0)),
     Some(Klines(30, "flat", 0, 0, 100, 0)),
     Some(Klines(60, "flat", 0, 0, 100, 0)),
     Some(Klines(60, "fall", 0, 3000, 200, 0)),
     Some(Klines(60, "flat", -3000, -3000, 100, 0)),
     Some(Klines(60, "rise", 0, 3000, 100, 7)),
     Some(WithNullVolume(Klines(60, "flat", 0, 0, 100, 0), 3))}

\* get_klines: data or []
get_klines(data) == IF data = NoneV THEN <<>> ELSE data[1]

Fetch(sym, data) == [kind |-> "fetch", symbol |-> sym, data |-> data]
Pace        == [kind |-> "pace", ms |-> PACING_MS]
Send(block, ok) == [kind |-> "send", block |-> block, ok |-> ok]

\* an exception leaves scan(): main's except block, when it matches, logs
\* it and main returns; otherwise the exception leaves main
ScanRaise(exc) ==
    /\ s_exc' = exc
    /\ m_caught' = MainCatches(exc)
    /\ s_pc' = IF MainCatches(exc) THEN "done" ELSE "crashed"

\* what resolving the symbol universe raises: int(TOP_N) a ValueError on a
\* non-numeric value, t.get an AttributeError when the ticker body is not a
\* list of objects
UniverseExcs == {"no", "ValueError", "AttributeError"}

\* scan() up to the for loop: read the configuration and resolve the
\* symbol universe
ScanStart ==
    /\ s_pc = "start"
    /\ \E mode \in Modes, exc \in UniverseExcs,
          symbols \in SeqsUpTo(ScanSymbols, MaxSymbols) :
          /\ s_mode' = mode
          /\ IF exc # "no"
             THEN /\ ScanRaise(exc)
                  /\ UNCHANGED s_symbols
             ELSE /\ s_symbols' = symbols
                  /\ s_pc' = IF symbols = <<>> THEN "done" ELSE "loop"
                  /\ UNCHANGED <<s_exc, m_caught>>
    /\ UNCHANGED <<s_idx, s_alerts, s_checked, s_events>>

\* after the body for s_symbols[s_idx]: next symbol, or leave the loop
LoopAdvance ==
    /\ s_idx' = s_idx + 1
    /\ s_pc' = IF s_idx = Len(s_symbols) THEN "notify" ELSE "loop"

\* a test that also skips a symbol with exactly the minimum of candles
Skipped_at_minimum(kl) == kl = <<>> \/ Len(kl) <= MIN_CANDLES

\* `if not kl or len(kl) < 30: continue`
Skipped(kl) == kl = <<>> \/ Len(kl) < MIN_CANDLES

\* one iteration of `for sym in symbols`, http_get having returned `data`
ScanBody(sym, data) ==
    LET kl == get_klines(data)
    IN
    IF Skipped(kl)
    THEN /\ s_events' = Append(s_events, Fetch(sym, data))
         /\ LoopAdvance
         /\ UNCHANGED <<s_alerts, s_checked, s_exc, m_caught>>
    ELSE IF ParseExc(kl) # "no"
    THEN /\ s_events' = Append(s_events, Fetch(sym, data))
         /\ ScanRaise(ParseExc(kl))
         /\ UNCHANGED <<s_idx, s_alerts, s_checked>>
    ELSE
    LET closes  == [i \in 1..Len(kl) |-> FloatOf(kl[i].close)]
        volumes == [i \in 1..Len(kl) |-> FloatOf(kl[i].volume)]
        sigs    == generate_signals(sym, closes, volumes, s_mode)
    IN
    IF sigs.raised # "no"
    THEN /\ s_events' = Append(s_events, Fetch(sym, data))
         /\ ScanRaise(sigs.raised)
         /\ UNCHANGED <<s_idx, s_alerts, s_checked>>
    ELSE /\ s_alerts' = s_alerts \o sigs.value
         /\ s_checked' = s_checked + 1
         /\ s_events' = s_events \o <<Fetch(sym, data), Pace>>
         /\ LoopAdvance
         /\ UNCHANGED <<s_exc, m_caught>>

ScanSymbol ==
    /\ s_pc = "loop"
    /\ s_idx <= Len(s_symbols)
    /\ \E data \in KlineResults : ScanBody(s_symbols[s_idx], data)
    /\ UNCHANGED <<s_mode, s_symbols>>

\* the else branch sending the "no new signals" ping that the code keeps
\* commented out
NotifyBlocks_ping(mode, checked, alerts) ==
    IF alerts # <<>>
    THEN Blocks(Header(mode, checked), alerts)
    ELSE <<Chunk(Header(mode, checked), <<>>)>>

\* the blocks of one cycle: `if alerts:` chunks them, the else branch only
\* logs
NotifyBlocks(mode, checked, alerts) ==
    IF alerts # <<>> THEN Blocks(Header(mode, checked), alerts) ELSE <<>>

RECURSIVE NotifyEvents_resend(_, _)
\* a loop that calls tg_send_message a second time when it returned False
NotifyEvents_resend(blocks, oks) ==
    IF blocks = <<>>
    THEN <<>>
    ELSE (IF Head(oks)
          THEN <<Send(Head(blocks), TRUE)>>
          ELSE <<Send(Head(blocks), FALSE), Send(Head(blocks), FALSE)>>)
         \o NotifyEvents_resend(Tail(blocks), Tail(oks))

\* one tg_send_message(chunk) call per block, in order, its result dropped
NotifyEvents(blocks, oks) == [i \in 1..Len(blocks) |-> Send(blocks[i], oks[i])]

\* scan() after the loop: chunk the alerts and send each block;
\* tg_send_message reports True or False and scan ignores it
ScanNotify ==
    /\ s_pc = "notify"
    /\ LET blocks == NotifyBlocks(s_mode, s_checked, s_alerts)
       IN  \E oks \in [1..Len(blocks) -> BOOLEAN] :
               s_events' = s_events \o NotifyEvents(blocks, oks)
    /\ s_pc' = "done"
    /\ UNCHANGED <<s_mode, s_symbols, s_idx, s_alerts, s_checked, s_exc, m_caught>>

ScanNext ==
    \/ ScanStart /\ UNCHANGED <<hvars, gvars, bvars, ivars, tvars>>
    \/ ScanSymbol /\ UNCHANGED <<hvars, gvars, bvars, ivars, tvars>>
    \/ ScanNotify /\ UNCHANGED <<hvars, gvars, bvars, ivars, tvars>>

----------------------------------------------------------------------------
(* tg_send_message (SpecTg)                                                 *)

\* what one sess.post meets: a status below 400, a 429, another error
\* status, or a transport exception
TgOutcomes == {"ok", "s429", "s400", "s500", "timeout"}

\* the Retry-After header of a 429: absent, a number of seconds, a negative
\* number, or a text that is no integer (an HTTP date)
TgRetryAfters == {"absent", "seconds", "negative", "text"}

\* seconds of the numeric Retry-After of the model
TG_RETRY_AFTER == 5

\* int(r.headers.get("Retry-After", "2"))
IntOk(ra) == ra # "text"
IntOf(ra) ==
    CASE ra = "absent"  -> RATE_LIMIT_SLEEP
      [] ra = "seconds" -> TG_RETRY_AFTER
      [] OTHER          -> -1

\* the exception of one attempt's try block, "no" when it raises none:
\* the transport's, raise_for_status's, int()'s on a text, or
\* time.sleep's on a negative number
TgExc(outcome, ra) ==
    CASE outcome = "timeout"                  -> "Timeout"
      [] outcome \in {"s400", "s500"}         -> "HTTPError"
      [] outcome = "s429" /\ ~IntOk(ra)       -> "ValueError"
      [] outcome = "s429" /\ IntOf(ra) < 0    -> "ValueError"
      [] OTHER                                -> "no"

\* the exception classes of requests and their base classes
TgBaseOf ==
    [Timeout |-> "RequestException", HTTPError |-> "RequestException",
     RequestException |-> "OSError", OSError |-> "Exception",
     ValueError |-> "Exception", Exception |-> "BaseException",
     BaseException |-> "object"]

RECURSIVE TgIsSubclass(_, _)
TgIsSubclass(cls, base) ==
    IF cls = base THEN TRUE
    ELSE IF cls = "object" THEN FALSE
    ELSE TgIsSubclass(TgBaseOf[cls], base)

\* a handler that catches requests.RequestException only
TgCaught_requests_only(exc) == TgIsSubclass(exc, "RequestException")

\* `except Exception as e`
TgCaught(exc) == TgIsSubclass(exc, "Exception")

Post(outcome, ra) == [kind |-> "post", outcome |-> outcome, retry_after |-> ra]

\* tg_send_message(text) is entered: without a token or a chat id it logs
\* and returns False
TgCall ==
    /\ t_pc = "call"
    /\ \E conf \in BOOLEAN :
          /\ t_conf' = conf
          /\ t_pc' = IF conf THEN "loop" ELSE "done"
          /\ t_ret' = IF conf THEN t_ret ELSE "False"
    /\ UNCHANGED <<t_attempt, t_trace, t_raised>>

\* One iteration of `for attempt in range(MAX_RETRIES)`; when it was the
\* last one and did not return, the code after the loop returns False.
TgAttempt ==
    /\ t_pc = "loop"
    /\ t_attempt < MAX_RETRIES
    /\ \E outcome \in TgOutcomes, ra \in TgRetryAfters :
          LET post == Post(outcome, ra)
              exc  == TgExc(outcome, ra)
              last == t_attempt + 1 = MAX_RETRIES
          IN
          /\ (outcome # "s429") => (ra = "absent")
          /\ IF exc = "no" /\ outcome = "s429"
             THEN /\ t_trace' = t_trace \o <<post, Sleep(IntOf(ra))>>
                  /\ t_attempt' = t_attempt + 1
                  /\ t_pc' = IF last THEN "done" ELSE "loop"
                  /\ t_ret' = IF last THEN "False" ELSE t_ret
                  /\ UNCHANGED t_raised
             ELSE IF exc = "no"
             THEN /\ t_trace' = Append(t_trace, post)
                  /\ t_ret' = "True"
                  /\ t_pc' = "done"
                  /\ UNCHANGED <<t_attempt, t_raised>>
             ELSE IF TgCaught(exc)
             THEN /\ t_trace' = t_trace \o
                        <<post, Sleep(RETRY_BACKOFF[Min(t_attempt, Len(RETRY_BACKOFF) - 1) + 1])>>
                  /\ t_attempt' = t_attempt + 1
                  /\ t_pc' = IF last THEN "done" ELSE "loop"
                  /\ t_ret' = IF last THEN "False" ELSE t_ret
                  /\ UNCHANGED t_raised
             ELSE /\ t_trace' = Append(t_trace, post)
                  /\ t_raised' = TRUE
                  /\ t_pc' = "done"
                  /\ UNCHANGED <<t_attempt, t_ret>>
    /\ UNCHANGED t_conf

TgNext ==
    \/ TgCall /\ UNCHANGED <<hvars, gvars, svars, bvars, ivars>>
    \/ TgAttempt /\ UNCHANGED <<hvars, gvars, svars, bvars, ivars>>

\* the posts of the call, in issue order
Posts == SelectSeq(t_trace, LAMBDA e : e.kind = "post")

----------------------------------------------------------------------------
(* rsi and macd on bounded series (SpecInd)                                 *)

\* longest of the exhaustively enumerated short series
MaxRsiLen == 5

\* prices of the short series: 100.0, 700.0 and 699.998
RsiPrices == {100000, 700000, 699998}

\* the series given to rsi and macd: every short series over RsiPrices and
\* the shaped series of the evaluator's inputs
IndSeries ==
    SeqsUpTo(RsiPrices, MaxRsiLen)
        \cup {Series(n, sh, 0, t2) : n \in CloseLens, sh \in Shapes, t2 \in TailMoves}

\* the calls rsi(values, period) and macd(values)
IndCompute ==
    /\ i_pc = "input"
    /\ i_rsi' = rsi(i_values, i_period)
    /\ i_avgs' = IF Len(i_values) <= i_period
                 THEN <<>>
                 ELSE RsiAverages(i_values, i_period)
    /\ i_macd' = macd(i_values, 12, 26, 9)
    /\ i_pc' = "done"
    /\ UNCHANGED <<i_values, i_period>>

IndNext == IndCompute /\ UNCHANGED <<hvars, gvars, svars, bvars, tvars>>

----------------------------------------------------------------------------
(* Specifications                                                           *)

\* before a call of http_get
FetchInit ==
    /\ h_pc = "idle"
    /\ h_url = "A"
    /\ h_signed_arg = FALSE
    /\ h_signed = FALSE
    /\ h_creds = FALSE
    /\ h_attempt = 0
    /\ h_trace = <<>>
    /\ h_ret = "unset"
    /\ h_raised = FALSE
    /\ g_pc = "idle"
    /\ g_symbol = BTC
    /\ g_closes = <<>>
    /\ g_volumes = <<>>
    /\ g_mode = "aggressive"
    /\ g_out = [raised |-> "unset", value |-> <<>>]
    /\ s_pc = "idle"
    /\ s_mode = "aggressive"
    /\ s_symbols = <<>>
    /\ s_idx = 1
    /\ s_alerts = <<>>
    /\ s_checked = 0
    /\ s_events = <<>>
    /\ s_exc = "no"
    /\ m_caught = FALSE
    /\ b_pc = "idle"
    /\ b_header = Header("aggressive", 1)
    /\ b_alerts = <<>>
    /\ b_sent = <<>>
    /\ i_pc = "idle"
    /\ i_values = <<>>
    /\ i_period = 14
    /\ i_rsi = <<>>
    /\ i_avgs = <<>>
    /\ i_macd = [macd_line |-> <<>>, signal_line |-> <<>>, hist |-> <<>>]
    /\ t_pc = "idle"
    /\ t_conf = FALSE
    /\ t_attempt = 0
    /\ t_trace = <<>>
    /\ t_ret = "unset"
    /\ t_raised = FALSE

\* the arguments of one call of generate_signals
SigInit ==
    /\ h_pc = "idle"
    /\ h_url = "A"
    /\ h_signed_arg = FALSE
    /\ h_signed = FALSE
    /\ h_creds = FALSE
    /\ h_attempt = 0
    /\ h_trace = <<>>
    /\ h_ret = "unset"
    /\ h_raised = FALSE
    /\ g_pc = "input"
    /\ g_symbol = BTC
    /\ \E n \in CloseLens, sh \in Shapes, t1 \in TailMoves, t2 \in TailMoves :
          g_closes = Series(n, sh, t1, t2)
    /\ \E k \in {0, 1, 19, 20, 60}, vl \in {100, 200} :
          g_volumes = Vols(k, vl)
    /\ g_mode \in Modes
    /\ g_out = [raised |-> "unset", value |-> <<>>]
    /\ s_pc = "idle"
    /\ s_mode = "aggressive"
    /\ s_symbols = <<>>
    /\ s_idx = 1
    /\ s_alerts = <<>>
    /\ s_checked = 0
    /\ s_events = <<>>
    /\ s_exc = "no"
    /\ m_caught = FALSE
    /\ b_pc = "idle"
    /\ b_header = Header("aggressive", 1)
    /\ b_alerts = <<>>
    /\ b_sent = <<>>
    /\ i_pc = "idle"
    /\ i_values = <<>>
    /\ i_period = 14
    /\ i_rsi = <<>>
    /\ i_avgs = <<>>
    /\ i_macd = [macd_line |-> <<>>, signal_line |-> <<>>, hist |-> <<>>]
    /\ t_pc = "idle"
    /\ t_conf = FALSE
    /\ t_attempt = 0
    /\ t_trace = <<>>
    /\ t_ret = "unset"
    /\ t_raised = FALSE

\* main() is about to call scan()
ScanInit ==
    /\ h_pc = "idle"
    /\ h_url = "A"
    /\ h_signed_arg = FALSE
    /\ h_signed = FALSE
    /\ h_creds = FALSE
    /\ h_attempt = 0
    /\ h_trace = <<>>
    /\ h_ret = "unset"
    /\ h_raised = FALSE
    /\ g_pc = "idle"
    /\ g_symbol = BTC
    /\ g_closes = <<>>
    /\ g_volumes = <<>>
    /\ g_mode = "aggressive"
    /\ g_out = [raised |-> "unset", value |-> <<>>]
    /\ s_pc = "start"
    /\ s_mode = "aggressive"
    /\ s_symbols = <<>>
    /\ s_idx = 1
    /\ s_alerts = <<>>
    /\ s_checked = 0
    /\ s_events = <<>>
    /\ s_exc = "no"
    /\ m_caught = FALSE
    /\ b_pc = "idle"
    /\ b_header = Header("aggressive", 1)
    /\ b_alerts = <<>>
    /\ b_sent = <<>>
    /\ i_pc = "idle"
    /\ i_values = <<>>
    /\ i_period = 14
    /\ i_rsi = <<>>
    /\ i_avgs = <<>>
    /\ i_macd = [macd_line |-> <<>>, signal_line |-> <<>>, hist |-> <<>>]
    /\ t_pc = "idle"
    /\ t_conf = FALSE
    /\ t_attempt = 0
    /\ t_trace = <<>>
    /\ t_ret = "unset"
    /\ t_raised = FALSE

\* a header and a findings list for the chunking loop
BatchInit ==
    /\ h_pc = "idle"
    /\ h_url = "A"
    /\ h_signed_arg = FALSE
    /\ h_signed = FALSE
    /\ h_creds = FALSE
    /\ h_attempt = 0
    /\ h_trace = <<>>
    /\ h_ret = "unset"
    /\ h_raised = FALSE
    /\ g_pc = "idle"
    /\ g_symbol = BTC
    /\ g_closes = <<>>
    /\ g_volumes = <<>>
    /\ g_mode = "aggressive"
    /\ g_out = [raised |-> "unset", value |-> <<>>]
    /\ s_pc = "idle"
    /\ s_mode = "aggressive"
    /\ s_symbols = <<>>
    /\ s_idx = 1
    /\ s_alerts = <<>>
    /\ s_checked = 0
    /\ s_events = <<>>
    /\ s_exc = "no"
    /\ m_caught = FALSE
    /\ b_pc = "input"
    /\ b_header = Header("aggressive", 1)
    /\ b_alerts \in SeqsUpTo(BatchLines, MaxAlerts)
    /\ b_sent = <<>>
    /\ i_pc = "idle"
    /\ i_values = <<>>
    /\ i_period = 14
    /\ i_rsi = <<>>
    /\ i_avgs = <<>>
    /\ i_macd = [macd_line |-> <<>>, signal_line |-> <<>>, hist |-> <<>>]
    /\ t_pc = "idle"
    /\ t_conf = FALSE
    /\ t_attempt = 0
    /\ t_trace = <<>>
    /\ t_ret = "unset"
    /\ t_raised = FALSE

\* a series and a period for rsi and macd
IndInit ==
    /\ h_pc = "idle"
    /\ h_url = "A"
    /\ h_signed_arg = FALSE
    /\ h_signed = FALSE
    /\ h_creds = FALSE
    /\ h_attempt = 0
    /\ h_trace = <<>>
    /\ h_ret = "unset"
    /\ h_raised = FALSE
    /\ g_pc = "idle"
    /\ g_symbol = BTC
    /\ g_closes = <<>>
    /\ g_volumes = <<>>
    /\ g_mode = "aggressive"
    /\ g_out = [raised |-> "unset", value |-> <<>>]
    /\ s_pc = "idle"
    /\ s_mode = "aggressive"
    /\ s_symbols = <<>>
    /\ s_idx = 1
    /\ s_alerts = <<>>
    /\ s_checked = 0
    /\ s_events = <<>>
    /\ s_exc = "no"
    /\ m_caught = FALSE
    /\ b_pc = "idle"
    /\ b_header = Header("aggressive", 1)
    /\ b_alerts = <<>>
    /\ b_sent = <<>>
    /\ i_pc = "input"
    /\ i_values \in IndSeries
    /\ i_period \in {2, 14}
    /\ i_rsi = <<>>
    /\ i_avgs = <<>>
    /\ i_macd = [macd_line |-> <<>>, signal_line |-> <<>>, hist |-> <<>>]
    /\ t_pc = "idle"
    /\ t_conf = FALSE
    /\ t_attempt = 0
    /\ t_trace = <<>>
    /\ t_ret = "unset"
    /\ t_raised = FALSE

\* a tg_send_message call about to be made
TgInit ==
    /\ h_pc = "idle"
    /\ h_url = "A"
    /\ h_signed_arg = FALSE
    /\ h_signed = FALSE
    /\ h_creds = FALSE
    /\ h_attempt = 0
    /\ h_trace = <<>>
    /\ h_ret = "unset"
    /\ h_raised = FALSE
    /\ g_pc = "idle"
    /\ g_symbol = BTC
    /\ g_closes = <<>>
    /\ g_volumes = <<>>
    /\ g_mode = "aggressive"
    /\ g_out = [raised |-> "unset", value |-> <<>>]
    /\ s_pc = "idle"
    /\ s_mode = "aggressive"
    /\ s_symbols = <<>>
    /\ s_idx = 1
    /\ s_alerts = <<>>
    /\ s_checked = 0
    /\ s_events = <<>>
    /\ s_exc = "no"
    /\ m_caught = FALSE
    /\ b_pc = "idle"
    /\ b_header = Header("aggressive", 1)
    /\ b_alerts = <<>>
    /\ b_sent = <<>>
    /\ i_pc = "idle"
    /\ i_values = <<>>
    /\ i_period = 14
    /\ i_rsi = <<>>
    /\ i_avgs = <<>>
    /\ i_macd = [macd_line |-> <<>>, signal_line |-> <<>>, hist |-> <<>>]
    /\ t_pc = "call"
    /\ t_conf = FALSE
    /\ t_attempt = 0
    /\ t_trace = <<>>
    /\ t_ret = "unset"
    /\ t_raised = FALSE

SpecFetch == FetchInit /\ [][HttpNext]_vars

SpecInd == IndInit /\ [][IndNext]_vars

SpecTg == TgInit /\ [][TgNext]_vars

SpecSig == SigInit /\ [][SigNext]_vars

SpecScan == ScanInit /\ [][ScanNext]_vars

SpecBatch == BatchInit /\ [][BatchNext]_vars

----------------------------------------------------------------------------
(* Properties of http_get (SpecFetch)                                       *)

\* the ranked hosts of the failover contract
EndpointPool == <<"A", "B", "C">>

PoolIndex(e) == CHOOSE i \in 1..Len(EndpointPool) : EndpointPool[i] = e

\* C1: after a request that got a blocking status (403), the very next
\* request of the call targets the next endpoint of the pool and no later
\* request targets the blocked endpoint again.
C1_FailoverOnBlock ==
    \A i \in 1..Len(Requests) :
        Requests[i].outcome = "s403" =>
            /\ \A j \in (i + 1)..Len(Requests) :
                  Requests[j].endpoint # Requests[i].endpoint
            /\ (i < Len(Requests) /\ PoolIndex(Requests[i].endpoint) < Len(EndpointPool)) =>
                  Requests[i + 1].endpoint =
                      EndpointPool[PoolIndex(Requests[i].endpoint) + 1]

\* C2: after a request that got a 429, the pause equals the Retry-After
\* duration when the response carried one (the fixed cooldown otherwise) and
\* the next request goes to the same endpoint.
C2_RateLimitHonorsRetryAfter ==
    \A i \in 1..Len(h_trace) :
        (h_trace[i].kind = "req" /\ h_trace[i].outcome = "s429") =>
            /\ i < Len(h_trace)
            /\ h_trace[i + 1].kind = "sleep"
            /\ h_trace[i + 1].secs =
                  (IF h_trace[i].retry_after = <<>>
                   THEN RATE_LIMIT_SLEEP
                   ELSE h_trace[i].retry_after[1])
            /\ (i + 2 <= Len(h_trace)) =>
                  /\ h_trace[i + 2].kind = "req"
                  /\ h_trace[i + 2].endpoint = h_trace[i].endpoint

AnySucceeded == \E i \in 1..Len(Requests) : Succeeds(Requests[i].outcome)

\* C3 as stated: http_get never raises, issues at most 3 requests and
\* returns None exactly when no attempt succeeded.
C3_NoneIffNoSuccess ==
    /\ ~h_raised
    /\ Len(Requests) <= 3
    /\ (h_pc = "done") => ((h_ret = None) <=> ~AnySucceeded)

\* C3 amended: http_get never raises, issues at most 3 requests, returns
\* None when no attempt succeeded and otherwise returns the parsed body of
\* the one successful attempt, which is its last request (that body is None
\* only for the JSON literal null).
C3_ExhaustionIsValue ==
    /\ ~h_raised
    /\ Len(Requests) <= 3
    /\ (h_pc = "done") =>
          IF AnySucceeded
          THEN /\ Succeeds(Requests[Len(Requests)].outcome)
               /\ \A i \in 1..(Len(Requests) - 1) : ~Succeeds(Requests[i].outcome)
               /\ h_ret = Json(Requests[Len(Requests)].outcome)
               /\ (h_ret = None) <=> (Requests[Len(Requests)].outcome = "ok_null")
          ELSE /\ h_ret = None
               /\ Len(Requests) = 3

\* a call exhausted by three different failure classes
C3_Witness ==
    /\ h_pc = "done"
    /\ h_ret = None
    /\ Len(Requests) = 3
    /\ Requests[1].outcome = "s429"
    /\ Requests[2].outcome = "bad_json"
    /\ Requests[3].outcome = "timeout"

----------------------------------------------------------------------------
(* Properties of generate_signals (SpecSig)                                 *)

SigDone == g_pc = "done"

Has(value, tmpls) == \E i \in 1..Len(value) : value[i].tmpl \in tmpls

\* C6: generate_signals returns a list without raising for closes and
\* volumes of any lengths, the empty list for fewer than 60 closes; rsi is
\* empty for length <= period and macd for length < slow + signal + 5.
C6_ShortInputNeverRaises ==
    SigDone =>
        /\ g_out.raised = "no"
        /\ (Len(g_closes) < 60) => (g_out.value = <<>>)
        /\ (Len(g_closes) <= 14) => (rsi(g_closes, 14) = <<>>)
        /\ (Len(g_closes) < 26 + 9 + 5) =>
              (macd(g_closes, 12, 26, 9) =
                  [macd_line |-> <<>>, signal_line |-> <<>>, hist |-> <<>>])

\* C7 as stated: every finding text returned in conservative mode is among
\* the texts returned in aggressive mode for the same input.
C7_ConservativeTextsInAggressive ==
    (SigDone /\ g_mode = "conservative" /\ g_out.raised = "no") =>
        LET aggr == generate_signals(g_symbol, g_closes, g_volumes, "aggressive").value
        IN  \A i \in 1..Len(g_out.value) :
                \E j \in 1..Len(aggr) : aggr[j] = g_out.value[i]

\* C7 amended: every finding returned in conservative mode has a finding of
\* the same category among those returned in aggressive mode for the same
\* input, with the same text unless it is the bullish-setup finding.
C7_ConservativeSubsetByCategory ==
    (SigDone /\ g_mode = "conservative" /\ g_out.raised = "no") =>
        LET aggr == generate_signals(g_symbol, g_closes, g_volumes, "aggressive").value
        IN  \A i \in 1..Len(g_out.value) :
                \E j \in 1..Len(aggr) :
                    /\ Category(aggr[j]) = Category(g_out.value[i])
                    /\ (Category(g_out.value[i]) # "bullish-setup") =>
                          (aggr[j] = g_out.value[i])

\* conservative mode returned its bullish-setup finding
C7_Witness ==
    /\ SigDone
    /\ g_mode = "conservative"
    /\ g_out.raised = "no"
    /\ Has(g_out.value, {"bull_cons"})

\* the quantities the rules are stated over, for >= 60 closes
RNow  == Nth(rsi(g_closes, 14), 1)[1]
RPrev == Nth(rsi(g_closes, 14), 2)[1]
BullCross ==
    LET m == macd(g_closes, 12, 26, 9)
    IN  /\ Nth(m.macd_line, 2) <= Nth(m.signal_line, 2)
        /\ Nth(m.macd_line, 1) > Nth(m.signal_line, 1)
Rebound == RPrev < 50 * FP /\ RNow >= 50 * FP
\* latest volume > 1.5 x mean of the last 20 volumes (of all when fewer)
Spike ==
    LET last == LastK(g_volumes, 20)
    IN  2 * g_volumes[Len(g_volumes)] > 3 * (SumSeq(last) \div Len(last))
MomentumPct ==
    LET a == g_closes[Len(g_closes)]
        b == g_closes[Len(g_closes) - 3]
    IN  IF b = 0 THEN 0 ELSE (((a - b) * FP) \div b) * 100

NonBullish(value) == SelectSeq(value, LAMBDA f : Category(f) # "bullish-setup")

SigEvaluated == SigDone /\ g_out.raised = "no" /\ Len(g_closes) >= 60

\* C8: the bullish-setup finding is emitted in conservative mode exactly
\* when bull cross, rebound, volume spike and momentum > 1.0% all hold, and
\* in every other mode exactly when bull cross or rebound or (spike and
\* momentum > 0.7%) holds; overbought is emitted exactly when RSI >= 70,
\* oversold exactly when RSI <= 30, and the non-bullish findings are the
\* same in every mode.
C8_BullishRulePerMode ==
    SigEvaluated =>
        /\ (g_mode = "conservative") =>
              (Has(g_out.value, {"bull_cons", "bull_aggr"}) <=>
                  (BullCross /\ Rebound /\ Spike /\ MomentumPct > 1000))
        /\ (g_mode # "conservative") =>
              (Has(g_out.value, {"bull_cons", "bull_aggr"}) <=>
                  (BullCross \/ Rebound \/ (Spike /\ MomentumPct > 700)))
        /\ Has(g_out.value, {"overbought"}) <=> (RNow >= 70 * FP)
        /\ Has(g_out.value, {"oversold"}) <=> (RNow <= 30 * FP)
        /\ \A md \in Modes :
              NonBullish(generate_signals(g_symbol, g_closes, g_volumes, md).value)
                  = NonBullish(g_out.value)

\* a mode that is neither documented value emitted the bullish-setup
\* finding through the volume/momentum disjunct alone
C8_Witness ==
    /\ SigEvaluated
    /\ g_mode = "other"
    /\ Has(g_out.value, {"bull_aggr"})
    /\ ~BullCross
    /\ ~Rebound
    /\ Spike
    /\ MomentumPct > 700
    /\ MomentumPct <= 1000

\* rule-evaluation order of the categories
Rank(f) ==
    CASE Category(f) = "bullish-setup"   -> 1
      [] Category(f) = "bearish-warning" -> 2
      [] Category(f) = "overbought"      -> 3
      [] Category(f) = "oversold"        -> 4

\* C9: the returned list holds no two equal finding texts and keeps the
\* rule-evaluation order bullish-setup, bearish-warning, overbought, oversold.
C9_NoDuplicatesInRuleOrder ==
    (SigDone /\ g_out.raised = "no") =>
        \A i, j \in 1..Len(g_out.value) :
            (i < j) =>
                /\ g_out.value[i] # g_out.value[j]
                /\ Rank(g_out.value[i]) < Rank(g_out.value[j])

\* a call that returned several findings
C9_Witness ==
    /\ SigDone
    /\ g_out.raised = "no"
    /\ Len(g_out.value) >= 2

BearCross ==
    LET m == macd(g_closes, 12, 26, 9)
    IN  /\ Nth(m.macd_line, 2) >= Nth(m.signal_line, 2)
        /\ Nth(m.macd_line, 1) < Nth(m.signal_line, 1)

\* the rules that hold for the input, counted: bullish setup (per mode),
\* bearish warning, overbought, oversold
Fired ==
    LET bull == IF g_mode = "conservative"
                THEN BullCross /\ Rebound /\ Spike /\ MomentumPct > 1000
                ELSE BullCross \/ Rebound \/ (Spike /\ MomentumPct > 700)
        bear == BearCross \/ (~Spike /\ MomentumPct < -1000 /\ RNow < RPrev)
    IN  Cardinality({c \in {"bull", "bear", "ob", "os"} :
            \/ c = "bull" /\ bull
            \/ c = "bear" /\ bear
            \/ c = "ob" /\ RNow >= 70 * FP
            \/ c = "os" /\ RNow <= 30 * FP})

\* C20: generate_signals returns at most 3 findings, never both an
\* overbought and an oversold finding, and in conservative mode never both
\* a bullish-setup and a bearish-warning finding; so the deduplication
\* removes nothing: every rule that holds has its finding in the result.
C20_CategoryExclusivity ==
    (SigDone /\ g_out.raised = "no") =>
        /\ Len(g_out.value) <= 3
        /\ ~(Has(g_out.value, {"overbought"}) /\ Has(g_out.value, {"oversold"}))
        /\ (g_mode = "conservative") =>
              ~(Has(g_out.value, {"bull_cons", "bull_aggr"}) /\ Has(g_out.value, {"bear"}))
        /\ (Len(g_closes) >= 60) => (Len(g_out.value) = Fired)

\* a call that returned three findings
C20_Witness ==
    /\ SigEvaluated
    /\ Len(g_out.value) = 3
    /\ Fired = 3

\* conservative mode returned its bullish-setup finding next to an extreme
C20_WitnessConservative ==
    /\ SigEvaluated
    /\ g_mode = "conservative"
    /\ Has(g_out.value, {"bull_cons"})
    /\ Len(g_out.value) = 2

----------------------------------------------------------------------------
(* Properties of scan() (SpecScan)                                          *)

FetchedSymbols ==
    LET fetches == SelectSeq(s_events, LAMBDA e : e.kind = "fetch")
    IN  [i \in 1..Len(fetches) |-> fetches[i].symbol]

RECURSIVE ConcatLines(_)
\* the finding lines of a sequence of blocks, in order, headers removed
ConcatLines(blocks) ==
    IF blocks = <<>> THEN <<>> ELSE Head(blocks).lines \o ConcatLines(Tail(blocks))

SentBlocks ==
    LET sends == SelectSeq(s_events, LAMBDA e : e.kind = "send")
    IN  [i \in 1..Len(sends) |-> sends[i].block]

\* C4: once a cycle that resolved a non-empty universe is over, every symbol
\* of the universe has been processed, whatever failed for another symbol,
\* and the findings collected were handed to the notifier.
C4_SymbolFailureIsolated ==
    (s_pc = "done" /\ s_symbols # <<>>) =>
        /\ FetchedSymbols = s_symbols
        /\ ConcatLines(SentBlocks) = s_alerts

\* C10: between the candle fetches of two consecutive symbols the pacing
\* delay is applied, whatever the outcome for the first of them.
C10_PacingBetweenFetches ==
    \A i \in 1..Len(s_events) :
        (s_events[i].kind = "fetch" /\ i < Len(s_events)
            /\ \E j \in (i + 1)..Len(s_events) : s_events[j].kind = "fetch") =>
                s_events[i + 1].kind = "pace"

----------------------------------------------------------------------------
(* Properties of the chunking loop (SpecBatch)                              *)

\* header plus every finding line with its newline
TotalText == b_header.len + SumLineLen(b_alerts)

Batched ==
    /\ Len(b_sent) >= 2
    /\ \A k \in 1..Len(b_sent) :
          /\ ChunkLen(b_sent[k]) <= 3800
          /\ b_sent[k].header = b_header
          /\ b_sent[k].lines # <<>>
    /\ ConcatLines(b_sent) = b_alerts

\* C5 as stated: every findings list whose total text exceeds the limit is
\* sent as at least 2 blocks, each at most 3800 characters, each starting
\* with the header and carrying a finding, whose lines in send order are
\* the findings list.
C5_BatchingAnyLines ==
    (b_pc = "done" /\ TotalText > 3800) => Batched

EveryLineFits ==
    \A i \in 1..Len(b_alerts) : b_header.len + LineLen(b_alerts[i]) + 1 <= 3800

\* C5 amended: the same, for findings lists in which every line fits in a
\* block together with the header (header + line + newline <= 3800).
C5_BatchingFittingLines ==
    (b_pc = "done" /\ TotalText > 3800 /\ EveryLineFits) => Batched

\* a list split into several blocks, one of them filled to the limit
C5_Witness ==
    /\ b_pc = "done"
    /\ TotalText > 3800
    /\ EveryLineFits
    /\ Len(b_sent) >= 3
    /\ \E k \in 1..Len(b_sent) : ChunkLen(b_sent[k]) = 3800
    /\ \E k \in 1..Len(b_sent) : Len(b_sent[k].lines) >= 2

----------------------------------------------------------------------------
(* Properties of the notification step of scan() (SpecScan)                 *)

Sends == SelectSeq(s_events, LAMBDA e : e.kind = "send")

\* C11: a block whose delivery failed is neither resent nor requeued and
\* does not stop the cycle: scan does not raise, every block of the batcher
\* is handed to tg_send_message exactly once, in order, so every finding is
\* carried by exactly one send.
C11_DeliveryFailureNotRequeued ==
    (s_pc = "done" /\ Sends # <<>>) =>
        /\ s_exc = "no"
        /\ ~m_caught
        /\ ConcatLines(SentBlocks) = s_alerts
        /\ \A i \in 1..Len(Sends) : Sends[i].block.lines # <<>>

\* the first block failed and the cycle still sent the next one
C11_Witness ==
    /\ s_pc = "done"
    /\ Len(Sends) >= 2
    /\ ~Sends[1].ok
    /\ s_exc = "no"

----------------------------------------------------------------------------
(* Properties of rsi and macd (SpecInd)                                     *)

IndDone == i_pc = "done"

\* the positions of i_rsi that hold a value
Defined == {k \in 1..Len(i_rsi) : i_rsi[k] # NoneV}

\* the average loss behind the value at position k
AvgLossAt(k) == i_avgs[k - i_period][2]

\* C12 as stated: every defined rsi value lies in [0, 100] and is 100
\* exactly when the Wilder-smoothed average loss at that index is 0.
C12_RsiHundredIffNoLoss ==
    IndDone =>
        \A k \in Defined :
            /\ 0 <= i_rsi[k][1]
            /\ i_rsi[k][1] <= 100 * FP
            /\ (i_rsi[k][1] = 100 * FP) <=> (AvgLossAt(k) = 0)

\* C12 amended: every defined rsi value lies in [0, 100] and is 100
\* whenever the Wilder-smoothed average loss at that index is 0 (a value of
\* 100 also comes out of a nonzero average loss that rounding makes vanish
\* against the average gain).
C12_RsiRangeAndHundredOnNoLoss ==
    IndDone =>
        /\ Defined = {k \in 1..Len(i_rsi) : k > i_period}
        /\ \A k \in Defined :
              /\ 0 <= i_rsi[k][1]
              /\ i_rsi[k][1] <= 100 * FP
              /\ (AvgLossAt(k) = 0) => (i_rsi[k][1] = 100 * FP)

\* a flat stretch (both averages 0) gave 100 and a later index, with a
\* nonzero average loss, gave less than 100
C12_Witness ==
    /\ IndDone
    /\ \E k \in Defined : i_avgs[k - i_period] = <<0, 0>> /\ i_rsi[k][1] = 100 * FP
    /\ \E k \in Defined : AvgLossAt(k) # 0 /\ i_rsi[k][1] < 100 * FP

\* C13: any exception raised inside scan (resolving the symbol universe,
\* the per-symbol loop, batching or sending) is caught in main and main
\* returns normally; no exception leaves main.
C13_ExceptionsCaughtInMain ==
    /\ s_pc # "crashed"
    /\ (s_exc # "no") => (m_caught /\ s_pc = "done")
    /\ m_caught => s_exc # "no"

\* an exception other than ValueError was raised inside the per-symbol loop
\* after an earlier symbol was checked
C13_Witness ==
    /\ s_exc \in {"TypeError", "IndexError", "AttributeError"}
    /\ s_checked >= 1
    /\ m_caught
    /\ s_pc = "done"

\* C14: as soon as one attempt of http_get gets a successful response,
\* http_get returns that parsed body; no request and no sleep follows it.
C14_SuccessShortCircuits ==
    \A i \in 1..Len(h_trace) :
        (h_trace[i].kind = "req"
            /\ h_trace[i].outcome \in {"ok_dict", "ok_list", "ok_null"}) =>
                /\ i = Len(h_trace)
                /\ h_pc = "done"
                /\ ~h_raised
                /\ h_ret = Json(h_trace[i].outcome)

\* a second attempt succeeded after a failed first one, with an attempt of
\* the budget left unused
C14_Witness ==
    /\ h_pc = "done"
    /\ Len(Requests) = 2
    /\ Requests[2].outcome = "ok_list"
    /\ h_ret = "list"
    /\ h_attempt = 1

\* C15: when a scan cycle collects zero findings (also when every symbol
\* was skipped), tg_send_message is never called in that cycle.
C15_NoMessageForNoFindings ==
    (s_alerts = <<>>) => (Sends = <<>>)

\* a cycle ended with a symbol checked, nothing found and nothing sent
C15_Witness ==
    /\ s_pc = "done"
    /\ s_exc = "no"
    /\ s_checked >= 1
    /\ s_alerts = <<>>
    /\ Sends = <<>>

MacdMinLen == 26 + 9 + 5

\* C16: for every input of length >= slow + signal + 5, macd returns three
\* sequences of the input's length, and at every index the histogram value
\* is the MACD line value minus the signal line value.
C16_MacdAligned ==
    (IndDone /\ Len(i_values) >= MacdMinLen) =>
        /\ Len(i_macd.macd_line) = Len(i_values)
        /\ Len(i_macd.signal_line) = Len(i_values)
        /\ Len(i_macd.hist) = Len(i_values)
        /\ \A i \in 1..Len(i_values) :
              i_macd.hist[i] = i_macd.macd_line[i] - i_macd.signal_line[i]

\* an input of exactly the minimum length gave a histogram with a positive
\* and a negative value
C16_Witness ==
    /\ IndDone
    /\ Len(i_values) = MacdMinLen
    /\ Len(i_macd.hist) = MacdMinLen
    /\ \E i, j \in 1..MacdMinLen : i_macd.hist[i] > 0 /\ i_macd.hist[j] < 0

\* the candle fetches of the cycle, in order
Fetches == SelectSeq(s_events, LAMBDA e : e.kind = "fetch")

\* the candles a fetch returned (none for a failed fetch)
CandlesOf(f) == IF f.data = <<>> THEN <<>> ELSE f.data[1]

\* the findings of the symbol of fetch f, from the candles it returned
FindingsOf(f) ==
    LET kl == CandlesOf(f)
    IN  generate_signals(f.symbol,
                         [i \in 1..Len(kl) |-> kl[i].close[1]],
                         [i \in 1..Len(kl) |-> kl[i].volume[1]],
                         s_mode).value

RECURSIVE Provenance(_)
\* the findings of the fetches that returned at least 30 candles, in order
Provenance(fs) ==
    IF fs = <<>> THEN <<>>
    ELSE (IF Len(CandlesOf(Head(fs))) >= 30 THEN FindingsOf(Head(fs)) ELSE <<>>)
             \o Provenance(Tail(fs))

\* C17: at the end of the per-symbol loop the checked counter is the number
\* of symbols whose candle fetch returned at least 30 candles; a symbol with
\* fewer (or a failed fetch) is not counted and contributes no finding; the
\* findings list is the concatenation, in symbol-universe order, of the
\* counted symbols' findings.
C17_CheckedCountAndProvenance ==
    (s_pc = "notify") =>
        /\ FetchedSymbols = s_symbols
        /\ s_checked = Cardinality({i \in 1..Len(Fetches) :
                                        Len(CandlesOf(Fetches[i])) >= 30})
        /\ s_alerts = Provenance(Fetches)

\* the loop ended with a skipped symbol between the start and a counted
\* symbol that has findings
C17_Witness ==
    /\ s_pc = "notify"
    /\ Len(Fetches) = 2
    /\ Len(CandlesOf(Fetches[1])) < 30
    /\ Len(CandlesOf(Fetches[2])) >= 30
    /\ s_checked = 1
    /\ s_alerts # <<>>

\* C18: when http_get is called with signed=True and the API key or the
\* secret is not configured, every request of the call is sent unsigned (no
\* timestamp, no signature, no API-key header) and the call proceeds as an
\* unsigned fetch; when both are configured, every attempt carries a
\* timestamp and a signature computed over that attempt's query.
C18_SigningOnlyWithCredentials ==
    h_signed_arg =>
        /\ ~h_creds =>
              /\ \A i \in 1..Len(Requests) :
                    /\ ~Requests[i].signed
                    /\ Requests[i].timestamp = <<>>
                    /\ Requests[i].signature = <<>>
                    /\ ~Requests[i].api_key_header
              /\ (h_pc = "done") =>
                    /\ Requests # <<>>
                    /\ ~h_raised
                    /\ Requests[Len(Requests)].outcome \in {"ok_dict", "ok_list", "ok_null"}
                          => h_ret = Json(Requests[Len(Requests)].outcome)
        /\ h_creds =>
              \A i \in 1..Len(Requests) :
                  /\ Requests[i].signed
                  /\ Requests[i].api_key_header
                  /\ Requests[i].timestamp = <<i>>
                  /\ Requests[i].signature =
                        <<[hmac_of |-> [endpoint |-> h_url, timestamp |-> i]]>>

\* a signed call with credentials retried, and its second request carries
\* its own timestamp
C18_Witness ==
    /\ h_signed_arg
    /\ h_creds
    /\ h_pc = "done"
    /\ Len(Requests) = 2
    /\ Requests[2].timestamp = <<2>>
    /\ Requests[2].signed

\* a signed call without credentials ended with a body after unsigned
\* requests
C18_WitnessUnsigned ==
    /\ h_signed_arg
    /\ ~h_creds
    /\ h_pc = "done"
    /\ Len(Requests) = 2
    /\ ~Requests[2].signed
    /\ h_ret = "dict"

----------------------------------------------------------------------------
(* Properties of tg_send_message (SpecTg)                                   *)

\* C19: for every sequence of transport outcomes (success, 429 with or
\* without a Retry-After header, also a non-numeric one, another error
\* status, an exception) tg_send_message never raises, issues at most
\* MAX_RETRIES (3) posts, returns True exactly when one post got a
\* successful status, and without a bot token or chat id issues no post and
\* returns False.
C19_SendWithinBudget ==
    /\ ~t_raised
    /\ Len(Posts) <= 3
    /\ (t_pc = "loop") => (t_attempt < 3 /\ Len(Posts) = t_attempt)
    /\ (t_pc = "done") =>
          /\ t_ret \in {"True", "False"}
          /\ (t_ret = "True") <=> (\E i \in 1..Len(Posts) : Posts[i].outcome = "ok")
          /\ ~t_conf => (Posts = <<>> /\ t_ret = "False")

\* a 429 with a Retry-After that is no integer, then a 429 with a numeric
\* one, then a post that succeeded
C19_Witness ==
    /\ t_pc = "done"
    /\ Len(Posts) = 3
    /\ Posts[1].outcome = "s429" /\ Posts[1].retry_after = "text"
    /\ Posts[2].outcome = "s429" /\ Posts[2].retry_after = "seconds"
    /\ Posts[3].outcome = "ok"
    /\ t_ret = "True"

====
